---- MODULE Spec2Model ----
(***************************************************************************)
(* A model of src/spectra_processing.py: the aggregation of exposures      *)
(* (AverageSpectra, AddSpectra), the background/dark correction            *)
(* (ProcessDataEach, ProcessData), the windowing (DefSpectrumForLines),    *)
(* the continuum normalisation (FitContinuum) and the line detection loop  *)
(* (DetectAndPlotLines).                                                   *)
(*                                                                         *)
(* A table (pandas DataFrame) is a record [columns, rows]: the column      *)
(* labels in order and the rows in order, each row a tuple with one value  *)
(* per column.  Tables carry the default RangeIndex, as LoadData and the   *)
(* aggregators produce them.  Intensities and fluxes are integers (flux    *)
(* and thresholds in hundredths); a mean is an exact fraction.  A numpy    *)
(* array is a function on 0..n-1, indexed the way Python indexes it.       *)
(***************************************************************************)
EXTENDS Integers, Sequences, FiniteSets, TLC

VARIABLES
    rawdata,               \* the caller's list of raw tables (mutable objects)
    background,            \* the caller's background table
    dark,                  \* the caller's dark table
    sum_spectra,           \* module global read by DefSpectrumForLines
    wavelength_truncated,  \* module global read by DetectAndPlotLines
    call                   \* the last call: its arguments, position and outcome

vars == <<rawdata, background, dark, sum_spectra, wavelength_truncated, call>>

(***************************************************************************)
(* Bounds of the model.                                                    *)
(***************************************************************************)
MaxTables == 3       \* tables in one aggregation
MaxTotalRows == 3    \* rows of all tables of one aggregation together
MaxRaw == 1          \* raw tables in one ProcessDataEach call
MaxLines == 1        \* entries of the line catalog
MaxTelluric == 1     \* entries of the telluric list

\* A module global: never assigned, or bound to a value.
Undefined == [defined |-> FALSE]
Defined(v) == [defined |-> TRUE, value |-> v]
NoCall == [op |-> "none"]

required_columns == <<"wavelength", "intensity">>

Idle == call = NoCall

\* The outcome of a call: the value it returns, or the exception it raises.
Returned(v) == [status |-> "returned", value |-> v]
Raised(e) == [status |-> e]
None == [columns |-> <<>>, rows |-> <<>>, none |-> TRUE]

\* ------------------------------------------------------------------------
\* Generic helpers
\* ------------------------------------------------------------------------
Abs(x) == IF x < 0 THEN -x ELSE x

RECURSIVE Gcd(_, _)
Gcd(a, b) == IF b = 0 THEN a ELSE Gcd(b, a % b)

\* The rational num/den (den > 0) in lowest terms.
Frac(num, den) ==
    LET g == Gcd(Abs(num), den)
    IN  [num |-> num \div g, den |-> den \div g]

RECURSIVE SumSeq(_)
SumSeq(s) == IF s = <<>> THEN 0 ELSE s[1] + SumSeq(Tail(s))

RECURSIVE Flatten(_)
Flatten(ss) == IF ss = <<>> THEN <<>> ELSE ss[1] \o Flatten(Tail(ss))

\* All sequences over S of length 0..n.
SeqsUpTo(S, n) == UNION {[1..k -> S] : k \in 0..n}

\* ------------------------------------------------------------------------
\* Tables
\* ------------------------------------------------------------------------
Table(cols, rws) == [columns |-> cols, rows |-> rws]

HasColumn(t, label) == \E c \in 1..Len(t.columns) : t.columns[c] = label

ColIndex(t, label) == CHOOSE c \in 1..Len(t.columns) : t.columns[c] = label

\* df[label].values
Column(t, label) == [p \in 1..Len(t.rows) |-> t.rows[p][ColIndex(t, label)]]

\* df.shape
NRows(t) == Len(t.rows)
NCols(t) == Len(t.columns)

EmptyTable == Table(required_columns, <<>>)

\* After the import of the module: no call was made, neither global is
\* defined, and the caller holds no tables yet.
Init ==
    /\ rawdata = <<>>
    /\ background = EmptyTable
    /\ dark = EmptyTable
    /\ sum_spectra = Undefined
    /\ wavelength_truncated = Undefined
    /\ call = NoCall

\* ------------------------------------------------------------------------
\* Aggregator: AverageSpectra, AddSpectra
\* ------------------------------------------------------------------------
\* pd.concat(spectra): the rows of the tables, one table after the other.
Concat(spectra) == Flatten([k \in 1..Len(spectra) |-> spectra[k].rows])

RECURSIVE InsertSorted(_, _)
InsertSorted(keys, w) ==
    IF keys = <<>> THEN <<w>>
    ELSE IF w = keys[1] THEN keys
    ELSE IF w < keys[1] THEN <<w>> \o keys
    ELSE <<keys[1]>> \o InsertSorted(Tail(keys), w)

AppendNew(keys, w) ==
    IF \E k \in 1..Len(keys) : keys[k] = w THEN keys ELSE Append(keys, w)

RECURSIVE KeysFrom(_, _)
KeysFrom(rws, keys) ==
    IF rws = <<>> THEN keys
    ELSE KeysFrom(Tail(rws), InsertSorted(keys, rws[1][1]))

RECURSIVE KeysInOrderOfAppearance(_, _)
KeysInOrderOfAppearance(rws, keys) ==
    IF rws = <<>> THEN keys
    ELSE KeysInOrderOfAppearance(Tail(rws), AppendNew(keys, rws[1][1]))

\* groupby with sort=False: the keys in the order they first appear.
GroupKeysUnsorted(combined) == KeysInOrderOfAppearance(combined, <<>>)

\* groupby('wavelength') (sort=True is the default): the distinct keys,
\* ascending.
GroupKeys(combined) == KeysFrom(combined, <<>>)

RECURSIVE ValuesAt(_, _)
ValuesAt(rws, w) ==
    IF rws = <<>> THEN <<>>
    ELSE (IF rws[1][1] = w THEN <<rws[1][2]>> ELSE <<>>) \o ValuesAt(Tail(rws), w)

\* Only the first record of the group (as drop_duplicates would keep).
GroupValuesFirstOnly(combined, w) == <<ValuesAt(combined, w)[1]>>

\* The 'intensity' values of the group of key w, in row order.
GroupValues(combined, w) == ValuesAt(combined, w)

\* .mean() of one group
Mean(vals) == Frac(SumSeq(vals), Len(vals))

AverageSpectra(spectra) ==
    IF spectra = <<>> THEN Raised("ValueError")   \* pd.concat: nothing to concatenate
    ELSE LET combined_spectra == Concat(spectra)
             keys == GroupKeys(combined_spectra)
         IN  Returned(Table(required_columns,
                   [g \in 1..Len(keys) |->
                       <<keys[g], Mean(GroupValues(combined_spectra, keys[g]))>>]))

AddSpectra(spectra) ==
    IF spectra = <<>> THEN Raised("ValueError")
    ELSE LET combined_spectra == Concat(spectra)
             keys == GroupKeys(combined_spectra)
         IN  Returned(Table(required_columns,
                   [g \in 1..Len(keys) |->
                       <<keys[g], SumSeq(GroupValues(combined_spectra, keys[g]))>>]))

\* Inputs of the aggregator: lists of tables of (wavelength, intensity) rows,
\* sorted or not, with or without repeated wavelengths.
Wavelengths == {1, 2, 3}
Intensities == {1, 4}
SampleRows == Wavelengths \X Intensities

\* The rows cut into n tables at the positions cuts (n-1 of them, ascending).
SplitAt(rws, n, cuts) ==
    [k \in 1..n |->
        Table(required_columns,
              SubSeq(rws, (IF k = 1 THEN 0 ELSE cuts[k - 1]) + 1,
                          IF k = n THEN Len(rws) ELSE cuts[k]))]

CutsOf(rws, n) ==
    {c \in [1..(n - 1) -> 0..Len(rws)] : \A k \in 1..(n - 2) : c[k] <= c[k + 1]}

AverageSpectraCall ==
    /\ call = NoCall
    /\ \E n \in 0..MaxTables, rws \in SeqsUpTo(SampleRows, MaxTotalRows) :
          \E cuts \in CutsOf(rws, n) :
             /\ n = 0 => rws = <<>>
             /\ LET spectra == SplitAt(rws, n, cuts)
                IN  call' = [op |-> "AverageSpectra", spectra |-> spectra,
                             out |-> AverageSpectra(spectra)]
    /\ UNCHANGED <<rawdata, background, dark, sum_spectra, wavelength_truncated>>

AddSpectraCall ==
    /\ call = NoCall
    /\ \E n \in 0..MaxTables, rws \in SeqsUpTo(SampleRows, MaxTotalRows) :
          \E cuts \in CutsOf(rws, n) :
             /\ n = 0 => rws = <<>>
             /\ LET spectra == SplitAt(rws, n, cuts)
                IN  call' = [op |-> "AddSpectra", spectra |-> spectra,
                             out |-> AddSpectra(spectra)]
    /\ UNCHANGED <<rawdata, background, dark, sum_spectra, wavelength_truncated>>

NextAgg == AverageSpectraCall \/ AddSpectraCall

SpecAgg == Init /\ [][NextAgg]_vars

\* ------------------------------------------------------------------------
\* Corrector: ProcessDataEach, ProcessData
\* ------------------------------------------------------------------------
\* The table with its 'intensity' column replaced by vals.
SetIntensity(t, vals) ==
    LET c == ColIndex(t, "intensity")
    IN  Table(t.columns,
              [p \in 1..Len(t.rows) |-> [t.rows[p] EXCEPT ![c] = vals[p]]])

\* The subtraction followed by clip(lower=0).
SubtractClipped(series, values) ==
    IF Len(values) = Len(series)
    THEN Returned([p \in 1..Len(series) |->
             IF series[p] - values[p] < 0 THEN 0 ELSE series[p] - values[p]])
    ELSE IF Len(values) = 1
    THEN Returned([p \in 1..Len(series) |->
             IF series[p] - values[1] < 0 THEN 0 ELSE series[p] - values[1]])
    ELSE Raised("ValueError")

\* series -= values, with values a numpy array: elementwise by position; an
\* array of one element is broadcast; any other length does not broadcast
\* against the series and raises ValueError.
Subtract(series, values) ==
    IF Len(values) = Len(series)
    THEN Returned([p \in 1..Len(series) |-> series[p] - values[p]])
    ELSE IF Len(values) = 1
    THEN Returned([p \in 1..Len(series) |-> series[p] - values[1]])
    ELSE Raised("ValueError")

\* processed_df['intensity'] -= reference['intensity'].values
SubtractReference(processed_df, reference) ==
    IF ~HasColumn(processed_df, "intensity") \/ ~HasColumn(reference, "intensity")
    THEN Raised("KeyError")
    ELSE LET d == Subtract(Column(processed_df, "intensity"),
                           Column(reference, "intensity"))
         IN  IF d.status # "returned" THEN d
             ELSE Returned(SetIntensity(processed_df, d.value))

\* One pass of the loop body of ProcessDataEach: the processed copy of data,
\* or the exception the body raises.
ProcessOne(data, bg, dk, subtract_background, subtract_dark) ==
    LET afterBackground ==
            IF subtract_background THEN SubtractReference(data, bg)
            ELSE Returned(data)
    IN  IF afterBackground.status # "returned" THEN afterBackground
        ELSE IF subtract_dark THEN SubtractReference(afterBackground.value, dk)
        ELSE afterBackground

\* ProcessDataEach: the list of processed tables; an exception raised for
\* one table ends the call and nothing is returned.
RECURSIVE ProcessDataEach(_, _, _, _, _)
ProcessDataEach(raw, bg, dk, subtract_background, subtract_dark) ==
    IF raw = <<>> THEN Returned(<<>>)
    ELSE LET processed_df ==
                 ProcessOne(raw[1], bg, dk, subtract_background, subtract_dark)
             rest == ProcessDataEach(Tail(raw), bg, dk,
                                     subtract_background, subtract_dark)
         IN  IF processed_df.status # "returned" THEN processed_df
             ELSE IF rest.status # "returned" THEN rest
             ELSE Returned(<<processed_df.value>> \o rest.value)

\* The validation loop of ProcessData over [rawdata, background, dark]: the
\* tables as the loop leaves them (df.columns = required_columns on every
\* table before the first one without two columns) and whether it returned.
RECURSIVE ValidateColumns(_)
ValidateColumns(dfs) ==
    IF dfs = <<>> THEN [ok |-> TRUE, dfs |-> <<>>]
    ELSE IF NCols(dfs[1]) # 2 THEN [ok |-> FALSE, dfs |-> dfs]
    ELSE LET rest == ValidateColumns(Tail(dfs))
         IN  [ok |-> rest.ok,
              dfs |-> <<Table(required_columns, dfs[1].rows)>> \o rest.dfs]

\* ProcessData: [out, rawdata, background, dark], the value returned (None
\* after the printed 'ERROR EXCEPTION' message) and the three argument
\* objects after the call.  With the default RangeIndex and equal lengths
\* the Series subtraction pairs the rows by position.
ProcessData(raw, bg, dk) ==
    LET v == ValidateColumns(<<raw, bg, dk>>)
        after == [rawdata |-> v.dfs[1], background |-> v.dfs[2], dark |-> v.dfs[3]]
    IN  IF ~v.ok THEN [out |-> Returned(None)] @@ after
        ELSE IF ~(NRows(raw) = NRows(bg) /\ NRows(bg) = NRows(dk))
        THEN [out |-> Returned(None)] @@ after
        ELSE [out |-> Returned(SetIntensity(after.rawdata,
                         [p \in 1..NRows(raw) |->
                             Column(after.rawdata, "intensity")[p]
                               - Column(after.background, "intensity")[p]
                               - Column(after.dark, "intensity")[p]]))] @@ after

\* Tables of the corrector: intensity columns of one or two rows on the grid
\* 1, 2, ..., under the required labels, under other labels, or with a
\* third column.
IntensityColumns == {<<2>>, <<1, 2>>, <<2, 1>>, <<3, 3>>}
ColumnLayouts == {required_columns, <<"nm", "counts">>,
                  <<"wavelength", "intensity", "flag">>}

MakeTable(layout, ints) ==
    Table(layout, [p \in 1..Len(ints) |->
                      IF Len(layout) = 2 THEN <<p, ints[p]>> ELSE <<p, ints[p], 0>>])

CorrTables == {MakeTable(l, i) : l \in ColumnLayouts, i \in IntensityColumns}

InitCorr ==
    /\ rawdata \in UNION {[1..k -> CorrTables] : k \in 1..MaxRaw}
    /\ background \in CorrTables
    /\ dark \in CorrTables
    /\ sum_spectra = Undefined
    /\ wavelength_truncated = Undefined
    /\ call = NoCall

ProcessDataEachCall ==
    /\ call = NoCall
    /\ \E subtract_background, subtract_dark \in BOOLEAN :
          call' = [op |-> "ProcessDataEach",
                   rawdata |-> rawdata, background |-> background, dark |-> dark,
                   subtract_background |-> subtract_background,
                   subtract_dark |-> subtract_dark,
                   out |-> ProcessDataEach(rawdata, background, dark,
                                           subtract_background, subtract_dark)]
    /\ UNCHANGED <<rawdata, background, dark, sum_spectra, wavelength_truncated>>

ProcessDataCall ==
    /\ call = NoCall
    /\ \E i \in 1..Len(rawdata) :
          LET r == ProcessData(rawdata[i], background, dark)
          IN  /\ call' = [op |-> "ProcessData", i |-> i,
                          rawdata |-> rawdata, background |-> background,
                          dark |-> dark, out |-> r.out]
              /\ rawdata' = [rawdata EXCEPT ![i] = r.rawdata]
              /\ background' = r.background
              /\ dark' = r.dark
    /\ UNCHANGED <<sum_spectra, wavelength_truncated>>

\* The caller takes the result; the tables stay as the call left them.
Return ==
    /\ call.op \in {"ProcessDataEach", "ProcessData"}
    /\ call' = NoCall
    /\ UNCHANGED <<rawdata, background, dark, sum_spectra, wavelength_truncated>>

NextCorr == ProcessDataEachCall \/ ProcessDataCall \/ Return

SpecCorr == InitCorr /\ [][NextCorr]_vars

\* ------------------------------------------------------------------------
\* Windowing: DefSpectrumForLines
\* ------------------------------------------------------------------------
\* array[mask] with mask = (wavelength >= lo) & (wavelength <= hi), applied
\* to the two columns of a table.
Window(t, minwavelength, maxwavelength) ==
    LET inside(row) == row[1] >= minwavelength /\ row[1] <= maxwavelength
        kept == SelectSeq(t.rows, inside)
    IN  [wavelength_truncated |-> [p \in 1..Len(kept) |-> kept[p][1]],
         intensity_truncated |-> [p \in 1..Len(kept) |-> kept[p][2]]]

\* DefSpectrumForLines(spectr, minwavelength, maxwavelength), in a module
\* whose global sum_spectra has the value global_sum_spectra: the body reads
\* the name sum_spectra, which is no parameter and no local.
DefSpectrumForLines(global_sum_spectra, spectr, minwavelength, maxwavelength) ==
    IF ~global_sum_spectra.defined THEN Raised("NameError")
    ELSE Returned(Window(global_sum_spectra.value, minwavelength, maxwavelength))

\* ------------------------------------------------------------------------
\* Continuum normalisation: FitContinuum
\* ------------------------------------------------------------------------
\* intensity - g1_fit(wavelength) for the least-squares polynomial of the
\* given degree (0: the mean; 1: the regression line), every element
\* multiplied by the same positive integer so that it stays an integer.
ScaledResidual(degree, wavelength, intensity) ==
    LET n == Len(wavelength)
        Sx == SumSeq(wavelength)
        Sy == SumSeq(intensity)
        Sxx == SumSeq([p \in 1..n |-> wavelength[p] * wavelength[p]])
        Sxy == SumSeq([p \in 1..n |-> wavelength[p] * intensity[p]])
        D == n * Sxx - Sx * Sx
        N == n * Sxy - Sx * Sy
    IN  IF degree = 0
        THEN [p \in 1..n |-> n * intensity[p] - Sy]
        ELSE [p \in 1..n |->
                 n * D * intensity[p] - (D * Sy - N * Sx) - n * N * wavelength[p]]

\* The float nan.
NaN == [nan |-> TRUE]

\* FitContinuum(degree, wavelength, intensity): the residual divided by its
\* L2 norm over the whole window.  An element is num/sqrt(normsq); numpy
\* divides 0 by 0 to nan with a RuntimeWarning and raises nothing.  (The
\* arithmetic is exact here; in floating point a rounding residue of the fit
\* can take the place of the zero, and an array is returned all the same.)
FitContinuum(degree, wavelength, intensity) ==
    LET residual == ScaledResidual(degree, wavelength, intensity)
        normsq == SumSeq([p \in 1..Len(residual) |-> residual[p] * residual[p]])
    IN  Returned([p \in 1..Len(residual) |->
                     IF normsq = 0 THEN NaN
                     ELSE [num |-> residual[p], normsq |-> normsq]])

\* Windows of two or three samples at ascending wavelengths.
FitWavelengths ==
    {w \in UNION {[1..k -> 1..4] : k \in 2..3} :
        \A p \in 1..(Len(w) - 1) : w[p] < w[p + 1]}
FitIntensities == {0, 1, 3}
Degrees == {0, 1}

FitContinuumCall ==
    /\ Idle
    /\ \E degree \in Degrees, wavelength \in FitWavelengths :
          \E intensity \in [1..Len(wavelength) -> FitIntensities] :
             call' = [op |-> "FitContinuum", degree |-> degree,
                      wavelength |-> wavelength, intensity |-> intensity,
                      out |-> FitContinuum(degree, wavelength, intensity)]
    /\ UNCHANGED <<rawdata, background, dark, sum_spectra, wavelength_truncated>>

SpecFit == Init /\ [][FitContinuumCall]_vars

\* ------------------------------------------------------------------------
\* Line detection: DetectAndPlotLines
\* ------------------------------------------------------------------------
CatalogOffset == 10      \* spectra[index - 10], spectra[index + 10]
TelluricOffset == 1      \* spectra[index - 1], spectra[index + 1]
TelluricThreshold == 2   \* depth >= 0.02, in hundredths

RaisedAt(e, line) == [status |-> e, line |-> line]

\* array[j] as Python indexes it: j counts from 0, a negative j counts from
\* the end, anything else raises IndexError.  The array is a sequence whose
\* element of index j is array[j + 1].
PyIndex(array, j) ==
    IF 0 <= j /\ j < Len(array) THEN Returned(array[j + 1])
    ELSE IF -Len(array) <= j /\ j < 0 THEN Returned(array[Len(array) + j + 1])
    ELSE Raised("IndexError")

\* np.argmin(np.abs(array - x)): the first index of the least distance.
ArgMinAbs(array, x) ==
    (CHOOSE j \in 1..Len(array) :
        /\ \A h \in 1..Len(array) : Abs(array[j] - x) <= Abs(array[h] - x)
        /\ \A h \in 1..(j - 1) : Abs(array[h] - x) > Abs(array[j] - x)) - 1

\* flux <= spectra[j]
BelowOrEqual(spectra, flux, j) ==
    LET v == PyIndex(spectra, j)
    IN  IF v.status # "returned" THEN v ELSE Returned(flux <= v.value)

\* flux < spectra[j]
Below(spectra, flux, j) ==
    LET v == PyIndex(spectra, j)
    IN  IF v.status # "returned" THEN v ELSE Returned(flux < v.value)

\* The body of either loop for one reference wavelength: the index snapped
\* to, and whether the entry is recorded, or the exception raised and the
\* line raising it.  first is the line of the argmin of that loop.
Judge(global_wavelength_truncated, spectra, line_wavelength, offset, threshold, first) ==
    IF ~global_wavelength_truncated.defined
    THEN [index |-> -1, verdict |-> RaisedAt("NameError", first)]
    ELSE IF Len(global_wavelength_truncated.value) = 0
    THEN [index |-> -1, verdict |-> RaisedAt("ValueError", first)]
    ELSE LET index == ArgMinAbs(global_wavelength_truncated.value, line_wavelength)
             flux == PyIndex(spectra, index)
         IN  [index |-> index,
              verdict |->
                IF flux.status # "returned" THEN RaisedAt("IndexError", first + 1)
                ELSE IF ~(-flux.value >= threshold) THEN Returned(FALSE)
                ELSE LET left == Below(spectra, flux.value, index - offset)
                     IN  IF left.status # "returned"
                         THEN RaisedAt("IndexError", first + 4)
                         ELSE IF ~left.value THEN Returned(FALSE)
                         ELSE LET right == Below(spectra, flux.value, index + offset)
                              IN  IF right.status # "returned"
                                  THEN RaisedAt("IndexError", first + 4)
                                  ELSE right]

\* dict[key] = value on an insertion-ordered dict, kept as a sequence of
\* <<key, value>>.
DictSet(d, key, value) ==
    IF \E e \in 1..Len(d) : d[e][1] = key
    THEN [e \in 1..Len(d) |-> IF d[e][1] = key THEN <<key, value>> ELSE d[e]]
    ELSE Append(d, <<key, value>>)

DictHas(d, key) == \E e \in 1..Len(d) : d[e][1] = key

\* Inputs of the detection: a residual of period three over n samples on the
\* wavelength grid 0, 2, 4, ...; a catalog (an ordered dict, label to
\* reference wavelength) and a telluric list.
SampleCounts == {8, 24}
FluxValues == {-4, -2, 0}
Grid(n) == [j \in 1..n |-> 2 * (j - 1)]
Residual(n, pattern) == [j \in 1..n |-> pattern[((j - 1) % 3) + 1]]
CatalogWavelengths == {7, 25, 60}
TelluricWavelengths == {0, 25, 60}
LineNames == <<"Ha", "Hb", "Hc", "Hd">>
Thresholds == {1, 4}

Catalogs ==
    UNION {{[j \in 1..k |-> <<LineNames[j], w[j]>>] : w \in [1..k -> CatalogWavelengths]} :
           k \in 0..MaxLines}
TelluricLists == SeqsUpTo(TelluricWavelengths, MaxTelluric)

WindowArrays == {Grid(8), Grid(24)}
SpectrumTables ==
    {Table(required_columns, <<<<1, 5>>, <<2, 6>>, <<3, 7>>>>),
     Table(required_columns, <<<<2, 9>>, <<4, 8>>>>)}
WindowLimits == {<<1, 3>>, <<2, 2>>, <<3, 9>>}

\* Module-level assignments of the script that uses the functions.
AssignSumSpectra ==
    /\ Idle
    /\ \E t \in SpectrumTables : sum_spectra' = Defined(t)
    /\ sum_spectra' # sum_spectra
    /\ UNCHANGED <<rawdata, background, dark, wavelength_truncated, call>>

AssignWavelengthTruncated ==
    /\ Idle
    /\ \E w \in WindowArrays : wavelength_truncated' = Defined(w)
    /\ wavelength_truncated' # wavelength_truncated
    /\ UNCHANGED <<rawdata, background, dark, sum_spectra, call>>

DefSpectrumForLinesCall ==
    /\ Idle
    /\ \E spectr \in SpectrumTables, limits \in WindowLimits :
          call' = [op |-> "DefSpectrumForLines", spectr |-> spectr,
                   minwavelength |-> limits[1], maxwavelength |-> limits[2],
                   out |-> DefSpectrumForLines(sum_spectra, spectr,
                                               limits[1], limits[2])]
    /\ UNCHANGED <<rawdata, background, dark, sum_spectra, wavelength_truncated>>

\* Where the loops stand after ncat catalog entries and ntel telluric
\* entries were judged.
NextPc(c, ncat, ntel) ==
    IF ncat < Len(c.spectral_lines) THEN "catalog"
    ELSE IF ntel < Len(c.telluric_lines) THEN "telluric"
    ELSE "plot"

DetectAndPlotLinesCall ==
    /\ Idle
    /\ \E n \in SampleCounts, pattern \in [1..3 -> FluxValues],
          spectral_lines \in Catalogs, telluric_lines \in TelluricLists,
          threshold \in Thresholds :
          LET c == [op |-> "DetectAndPlotLines",
                    spectra |-> Residual(n, pattern), wavelength |-> Grid(n),
                    spectral_lines |-> spectral_lines,
                    telluric_lines |-> telluric_lines,
                    threshold |-> threshold,
                    detected_lines |-> <<>>, telluric_lines_d |-> <<>>,
                    ncat |-> 0, ntel |-> 0, index |-> -1,
                    plotted |-> <<>>, out |-> [status |-> "running"],
                    pc |-> "start"]
          IN  call' = [c EXCEPT !.pc = NextPc(c, 0, 0)]
    /\ UNCHANGED <<rawdata, background, dark, sum_spectra, wavelength_truncated>>

\* One pass of the loop over spectral_lines.items().
CatalogStep ==
    /\ call.op = "DetectAndPlotLines" /\ call.pc = "catalog"
    /\ LET entry == call.spectral_lines[call.ncat + 1]
           j == Judge(wavelength_truncated, call.spectra, entry[2],
                      CatalogOffset, call.threshold, 174)
       IN  IF j.verdict.status # "returned"
           THEN call' = [call EXCEPT !.pc = "raised", !.index = j.index,
                                     !.out = j.verdict]
           ELSE call' = [call EXCEPT
                   !.index = j.index,
                   !.ncat = @ + 1,
                   !.detected_lines =
                       IF j.verdict.value THEN DictSet(@, entry[1], entry[2]) ELSE @,
                   !.pc = NextPc(call, call.ncat + 1, call.ntel)]
    /\ UNCHANGED <<rawdata, background, dark, sum_spectra, wavelength_truncated>>

\* One pass of the loop over telluric_lines["TL"].
TelluricStep ==
    /\ call.op = "DetectAndPlotLines" /\ call.pc = "telluric"
    /\ LET line_wavelength == call.telluric_lines[call.ntel + 1]
           j == Judge(wavelength_truncated, call.spectra, line_wavelength,
                      TelluricOffset, TelluricThreshold, 182)
       IN  IF j.verdict.status # "returned"
           THEN call' = [call EXCEPT !.pc = "raised", !.index = j.index,
                                     !.out = j.verdict]
           ELSE call' = [call EXCEPT
                   !.index = j.index,
                   !.ntel = @ + 1,
                   !.telluric_lines_d =
                       IF j.verdict.value
                       THEN DictSet(@, line_wavelength, line_wavelength) ELSE @,
                   !.pc = NextPc(call, call.ncat, call.ntel + 1)]
    /\ UNCHANGED <<rawdata, background, dark, sum_spectra, wavelength_truncated>>

\* The detections handed to lineid_plot.plot_line_ids: the reference
\* wavelengths and the labels, catalog first; then the function returns
\* None.  The name wavelength_truncated is read here as well.
PlotStep ==
    /\ call.op = "DetectAndPlotLines" /\ call.pc = "plot"
    /\ IF ~wavelength_truncated.defined
       THEN call' = [call EXCEPT !.pc = "raised", !.out = RaisedAt("NameError", 190)]
       ELSE call' = [call EXCEPT
               !.pc = "done",
               !.plotted =
                   [line_wave |->
                       [e \in 1..Len(call.detected_lines) |-> call.detected_lines[e][2]]
                         \o [e \in 1..Len(call.telluric_lines_d) |->
                                call.telluric_lines_d[e][2]],
                    line_label |->
                       [e \in 1..Len(call.detected_lines) |-> call.detected_lines[e][1]]
                         \o [e \in 1..Len(call.telluric_lines_d) |-> "TL"]],
               !.out = Returned(None)]
    /\ UNCHANGED <<rawdata, background, dark, sum_spectra, wavelength_truncated>>

NextDet ==
    \/ AssignWavelengthTruncated
    \/ DetectAndPlotLinesCall
    \/ CatalogStep
    \/ TelluricStep
    \/ PlotStep

SpecDet == Init /\ [][NextDet]_vars

\* The windowing and the detection together, with both globals.
Next ==
    \/ AssignSumSpectra
    \/ AssignWavelengthTruncated
    \/ DefSpectrumForLinesCall
    \/ DetectAndPlotLinesCall
    \/ CatalogStep
    \/ TelluricStep
    \/ PlotStep

Spec == Init /\ [][Next]_vars

\* ------------------------------------------------------------------------
\* Claims about the windowing and the line detection
\* ------------------------------------------------------------------------
IsDetect == call.op = "DetectAndPlotLines"

\* The flux of the sample of index i (counted from 0).
FluxAt(i) == call.spectra[i + 1]

\* The index of the sample nearest to x in the array the loops consult.
Snapped(x) == ArgMinAbs(wavelength_truncated.value, x)

Interior(i, k) == i >= k /\ i <= Len(call.spectra) - 1 - k

Accepts(i, k, threshold) ==
    /\ -FluxAt(i) >= threshold
    /\ FluxAt(i) < FluxAt(i - k)
    /\ FluxAt(i) < FluxAt(i + k)

\* C3: an entry whose nearest sample i lies at least k samples from both
\* edges is recorded as detected iff -flux[i] >= threshold and flux[i] is
\* strictly below flux[i-k] and flux[i+k]; k = 10 and the caller's threshold
\* for the catalog, k = 1 and 0.02 for the telluric list.
C3_DetectionRule ==
    IsDetect =>
        /\ \A e \in 1..call.ncat :
              LET entry == call.spectral_lines[e]
                  i == Snapped(entry[2])
              IN  Interior(i, 10) =>
                      (DictHas(call.detected_lines, entry[1])
                          <=> Accepts(i, 10, call.threshold))
        /\ \A e \in 1..call.ntel :
              LET w == call.telluric_lines[e]
                  i == Snapped(w)
              IN  Interior(i, 1) =>
                      (DictHas(call.telluric_lines_d, w) <=> Accepts(i, 1, 2))

\* A call that ran to its end with a catalog entry and a telluric entry,
\* both away from the edges, both detected.
C3_Witness ==
    /\ IsDetect /\ call.pc = "done"
    /\ \E e \in 1..call.ncat :
          /\ Interior(Snapped(call.spectral_lines[e][2]), 10)
          /\ DictHas(call.detected_lines, call.spectral_lines[e][1])
    /\ \E e \in 1..call.ntel :
          /\ Interior(Snapped(call.telluric_lines[e]), 1)
          /\ DictHas(call.telluric_lines_d, call.telluric_lines[e])

\* The global the loops read holds the wavelength array of the call.
GlobalIsArgument ==
    wavelength_truncated.defined /\ wavelength_truncated.value = call.wavelength

\* C4: an entry whose snapped index lies within the margin of an edge (10
\* for the catalog, 1 for the telluric list) is never among the detections.
C4_NoDetectionAtTheEdges ==
    (IsDetect /\ GlobalIsArgument) =>
        /\ \A e \in 1..call.ncat :
              ~Interior(Snapped(call.spectral_lines[e][2]), 10)
                  => ~DictHas(call.detected_lines, call.spectral_lines[e][1])
        /\ \A e \in 1..call.ntel :
              ~Interior(Snapped(call.telluric_lines[e]), 1)
                  => ~DictHas(call.telluric_lines_d, call.telluric_lines[e])

\* C5: a lookup at index +- offset outside the array does not raise; the
\* call goes on to the remaining entries.
C5_EdgeLookupDoesNotRaise ==
    (IsDetect /\ GlobalIsArgument) =>
        ~(call.pc = "raised" /\ call.out.status = "IndexError")

\* C10: the result of a call depends on its arguments only: the window is
\* the window of the spectrum passed, whatever the module's globals hold,
\* and every entry is judged on the wavelength array passed.
C10_ResultDependsOnArgumentsOnly ==
    /\ call.op = "DefSpectrumForLines" =>
          /\ call.out = Returned(Window(call.spectr, call.minwavelength,
                                        call.maxwavelength))
          /\ \A g \in {Undefined} \cup {Defined(t) : t \in SpectrumTables} :
                DefSpectrumForLines(g, call.spectr, call.minwavelength,
                                    call.maxwavelength) = call.out
    /\ IsDetect =>
          /\ call.out.status # "NameError"
          /\ \A e \in 1..call.ncat :
                LET entry == call.spectral_lines[e]
                IN  DictHas(call.detected_lines, entry[1])
                      <=> Judge(Defined(call.wavelength), call.spectra, entry[2],
                                CatalogOffset, call.threshold, 174).verdict
                            = Returned(TRUE)

\* ------------------------------------------------------------------------
\* Claims about the continuum normalisation
\* ------------------------------------------------------------------------
ConstantIntensity ==
    \A p, q \in 1..Len(call.intensity) : call.intensity[p] = call.intensity[q]

\* C9: a constant windowed intensity makes FitContinuum signal a
\* DegenerateSpectrum error instead of returning a residual array.
C9_ConstantWindowIsAnError ==
    (call.op = "FitContinuum" /\ ConstantIntensity)
        => call.out.status = "DegenerateSpectrum"

\* ------------------------------------------------------------------------
\* Claims about the corrector
\* ------------------------------------------------------------------------
IsCorrCall == call.op \in {"ProcessDataEach", "ProcessData"}

\* The tables that take part in the call: the raw table(s), and the
\* references the call subtracts.
Participants ==
    IF call.op = "ProcessData"
    THEN {call.rawdata[call.i], call.background, call.dark}
    ELSE {call.rawdata[k] : k \in 1..Len(call.rawdata)}
           \cup (IF call.subtract_background THEN {call.background} ELSE {})
           \cup (IF call.subtract_dark THEN {call.dark} ELSE {})

ShapeViolation ==
    \/ \E t \in Participants : NCols(t) # 2
    \/ \E t, u \in Participants : NRows(t) # NRows(u)

\* The call ended in an error: an exception, or None after the printed
\* error message.
EndedInError == call.out.status # "returned" \/ call.out.value = None

\* C6: a participating table without exactly two columns, or tables of
\* different row counts, make either entry point end in an error with no
\* result.
C6_ShapeMismatchIsAnError == (IsCorrCall /\ ShapeViolation) => EndedInError

EqualLengthCall ==
    /\ call.op = "ProcessDataEach"
    /\ \A t \in {call.rawdata[k] : k \in 1..Len(call.rawdata)}
                  \cup {call.background, call.dark} :
          /\ HasColumn(t, "intensity")
          /\ NRows(t) = NRows(call.background)

\* C7: for tables of equal length the output intensity at p is raw[p], minus
\* background[p] iff that toggle is on, minus dark[p] iff that toggle is on;
\* both off returns the raw intensities, both on equals the two single
\* subtractions in sequence, and nothing is clamped at zero.
C7_ToggledSubtraction ==
    EqualLengthCall =>
        /\ call.out.status = "returned"
        /\ Len(call.out.value) = Len(call.rawdata)
        /\ \A k \in 1..Len(call.rawdata) :
              /\ NRows(call.out.value[k]) = NRows(call.rawdata[k])
              /\ \A p \in 1..NRows(call.rawdata[k]) :
                    Column(call.out.value[k], "intensity")[p] =
                        Column(call.rawdata[k], "intensity")[p]
                          - (IF call.subtract_background
                             THEN Column(call.background, "intensity")[p] ELSE 0)
                          - (IF call.subtract_dark
                             THEN Column(call.dark, "intensity")[p] ELSE 0)
        /\ (~call.subtract_background /\ ~call.subtract_dark)
              => call.out.value = call.rawdata
        /\ (call.subtract_background /\ call.subtract_dark)
              => LET first == ProcessDataEach(call.rawdata, call.background,
                                              call.dark, TRUE, FALSE)
                 IN  /\ first.status = "returned"
                     /\ call.out = ProcessDataEach(first.value, call.background,
                                                   call.dark, FALSE, TRUE)

\* Both subtractions applied to tables of two rows, with a negative result.
C7_Witness ==
    /\ EqualLengthCall
    /\ call.subtract_background /\ call.subtract_dark
    /\ NRows(call.background) = 2
    /\ \E p \in 1..2 : Column(call.out.value[1], "intensity")[p] < 0

\* C8: after a call of ProcessData or ProcessDataEach the raw, background
\* and dark tables are as they were passed in: same values, same labels.
C8_InputsUntouched ==
    IsCorrCall =>
        /\ rawdata = call.rawdata
        /\ background = call.background
        /\ dark = call.dark

\* ------------------------------------------------------------------------
\* Claims about the aggregator
\* ------------------------------------------------------------------------
IsAggCall == call.op \in {"AverageSpectra", "AddSpectra"} /\ call.spectra # <<>>

\* The places (table k, row p) of the input where wavelength w is recorded.
PlacesOf(spectra, w) ==
    {kp \in UNION {{<<k, p>> : p \in 1..Len(spectra[k].rows)} : k \in 1..Len(spectra)} :
        spectra[kp[1]].rows[kp[2]][1] = w}

RECURSIVE TotalAt(_, _)
TotalAt(spectra, places) ==
    IF places = {} THEN 0
    ELSE LET kp == CHOOSE x \in places : TRUE
         IN  spectra[kp[1]].rows[kp[2]][2] + TotalAt(spectra, places \ {kp})

InputWavelengths(spectra) ==
    {spectra[k].rows[p][1] : <<k, p>> \in
        UNION {{<<k, p>> : p \in 1..Len(spectra[k].rows)} : k \in 1..Len(spectra)}}

\* C1: for a non-empty list of tables and every wavelength w of the input,
\* the output row of w holds the arithmetic mean (AverageSpectra) or the sum
\* (AddSpectra) of exactly the intensities recorded at w; tables without w
\* do not count.
C1_AggregateAtWavelength ==
    IsAggCall =>
        \A w \in InputWavelengths(call.spectra) :
            LET places == PlacesOf(call.spectra, w)
                total == TotalAt(call.spectra, places)
                n == Cardinality(places)
            IN  \E g \in 1..Len(call.out.value.rows) :
                    /\ call.out.value.rows[g][1] = w
                    /\ IF call.op = "AverageSpectra"
                       THEN /\ call.out.value.rows[g][2].num * n = total * call.out.value.rows[g][2].den
                            /\ call.out.value.rows[g][2].den > 0
                       ELSE call.out.value.rows[g][2] = total

\* A wavelength recorded in one table only, among several tables, and
\* another recorded more than once.
C1_Witness ==
    /\ IsAggCall
    /\ Len(call.spectra) >= 2
    /\ \E w \in InputWavelengths(call.spectra) :
          /\ Cardinality(PlacesOf(call.spectra, w)) = 1
          /\ \E k \in 1..Len(call.spectra) :
                \A p \in 1..Len(call.spectra[k].rows) : call.spectra[k].rows[p][1] # w
    /\ \E w \in InputWavelengths(call.spectra) :
          Cardinality(PlacesOf(call.spectra, w)) >= 2

\* C2: the wavelength column of the output is the union of the input
\* wavelengths, each once, ascending, for sorted and unsorted input.
C2_SortedUnion ==
    IsAggCall =>
        /\ {call.out.value.rows[g][1] : g \in 1..Len(call.out.value.rows)}
               = InputWavelengths(call.spectra)
        /\ \A g, h \in 1..Len(call.out.value.rows) :
               g < h => call.out.value.rows[g][1] < call.out.value.rows[h][1]

\* An unsorted input with a repeated wavelength.
C2_Witness ==
    /\ IsAggCall
    /\ \E k \in 1..Len(call.spectra) :
          /\ Len(call.spectra[k].rows) >= 2
          /\ call.spectra[k].rows[1][1] > call.spectra[k].rows[2][1]
    /\ \E w \in InputWavelengths(call.spectra) :
          Cardinality(PlacesOf(call.spectra, w)) >= 2
    /\ Len(call.out.value.rows) >= 2

====
